---- MODULE Spec2Model ----
(***************************************************************************)
(* The getting-started producer (messenger/examples/python/getting-started *)
(* /producer.py) and the basic consumer (third_party/iggy/examples/python/ *)
(* basic/consumer.py) running against one broker that holds the stream     *)
(* "sample-stream", the topic "sample-topic" and its partition.            *)
(*                                                                         *)
(* Three clients take steps: the producer program, the consumer program    *)
(* and a peer, a second caller of init_system on the same broker.  Every   *)
(* awaited client call is one step; the broker answers it atomically.  A   *)
(* call may raise: the choice is the environment's.  Spec runs the two     *)
(* programs, ProvisionSpec the two callers of init_system.                 *)
(***************************************************************************)
EXTENDS Integers, Sequences, FiniteSets, TLC

\* producer.py:34, consumer.py:30
BATCHES_LIMIT == 5
\* producer.py:114, consumer.py:64
messages_per_batch == 10

\* producer.py:29-30, consumer.py:25-26
STREAM_NAME == "sample-stream"
TOPIC_NAME == "sample-topic"
\* producer.py:33, consumer.py:29
PARTITION_ID == 1
\* producer.py:96, the partitions_count argument of create_topic
partitions_count == 1

\* How many send_messages calls of one producer run may fail (each failure
\* costs the loop one more iteration, so the count must be capped).
MaxSendFailures == 1
\* How many messages of earlier runs the partition may hold at the start.
MaxBacklog == 1
\* How many messages of a poll may be handled before handle_message raises.
MaxHandled == 1

Callers == {"producer", "peer"}
Clients == {"producer", "peer", "consumer"}
Programs == {"producer", "consumer"}

VARIABLES
    \* ---- broker
    streamExists,       \* the stream STREAM_NAME exists
    topicExists,        \* the topic TOPIC_NAME exists in it
    log,                \* the partition: the payloads appended, in offset order
    cursor,             \* the consumer's position the broker stores (auto-commit)
    \* ---- control
    pc,                 \* each client's position
    \* ---- init_system, per caller
    streamStep,         \* "none" | "created" | "exists" | "error"
    topicStep,          \* "none" | "created" | "exists" | "error"
    calls,              \* how often each caller has issued each topology call
    fault,              \* a topology call was failed by the transport
    overlap,            \* two callers were inside init_system at the same time
    preexisting,        \* what the broker held at the start: "nothing" | "stream" | "topic"
    cursorAtStart,      \* the position the broker stored for the consumer at the start
    \* ---- produce_messages
    current_id,
    n_sent_batches,
    messages,           \* the batch under construction / being sent
    sends,              \* every send_messages call so far: [batch, ok, to]
    pSummary,           \* the count the producer's last log line reports, -1 before
    batch_ids,          \* the "Batch ID" of every "Attempting to send" log line
    \* ---- consume_messages
    offset,
    n_consumed_batches,
    polled_messages,
    handled,            \* the messages handle_message was called on, in order
    polls,              \* the sizes of the non-empty poll results, in order
    cError,             \* "none" | "poll" | "handle": what the except clause caught
    cSummary,           \* the count the consumer's last log line reports, -1 before
    \* ---- the connection of each program
    session,            \* "none" | "open": client.connect() has returned
    connFail,           \* "none" | "connect" | "login": the call of main that raised
    \* ---- pacing
    pPauses,            \* asyncio.sleep calls of the producer since its last send
    cPauses,            \* asyncio.sleep calls of the consumer since its last poll
    lastPoll            \* the last poll's outcome: "none" | "empty" | "some" | "raised"
                        \* | "missing" (raised because the topic does not exist)

brokerVars   == <<streamExists, topicExists, log, cursor>>
initVars     == <<streamStep, topicStep, calls, fault, overlap, preexisting,
                  cursorAtStart>>
producerVars == <<current_id, n_sent_batches, messages, sends, pSummary, batch_ids>>
consumerVars == <<offset, n_consumed_batches, polled_messages, handled, polls,
                  cError, cSummary>>
connVars     == <<session, connFail>>
paceVars     == <<pPauses, cPauses, lastPoll>>
vars == <<streamExists, topicExists, log, cursor, pc, streamStep, topicStep,
          calls, fault, overlap, preexisting, cursorAtStart, current_id,
          n_sent_batches, messages, sends, pSummary, batch_ids,
          offset, n_consumed_batches, polled_messages, handled, polls, cError,
          cSummary, session, connFail, pPauses, cPauses, lastPoll>>

----------------------------------------------------------------------------
\* Helpers

Min(a, b) == IF a < b THEN a ELSE b

\* f"message-{current_id}"
Payload(id) == <<"message-", id>>

\* Message(payload): a producer-side message carries only its payload
Message(payload) == [payload |-> payload]

\* the identifier embedded in a payload
IdOf(m) == m.payload[2]

\* (mutant) the identifier is embedded before it is incremented
BuildBatch_ZeroBased(first) ==
    [k \in 1..messages_per_batch |-> Message(Payload(first + k - 1))]

\* messages = []; for _ in range(messages_per_batch): current_id += 1; append
BuildBatch(first) ==
    [k \in 1..messages_per_batch |-> Message(Payload(first + k))]

\* What poll_messages(PollingStrategy.Next(), count) returns at position c:
\* the next at most count messages, each with its broker-assigned offset.
PollResult(c, count) ==
    [k \in 1..Min(count, Len(log) - c) |->
        [payload |-> log[c + k], offset |-> c + k - 1]]

\* the arguments stream, topic and partitioning of every send_messages call
Target == [stream |-> STREAM_NAME, topic |-> TOPIC_NAME, partition |-> PARTITION_ID]

\* the ids by which the partitions of a topic with `count` partitions are
\* addressed: zero-based
PartitionIds(count) == 0..(count - 1)

CallNames == {"get_stream", "create_stream", "get_topic", "create_topic"}

\* the ledger of topology calls after caller c has issued the call `what`
Called(c, what) == [calls EXCEPT ![c][what] = @ + 1]

\* how often the call `what` was issued, over all callers
NumCalls(what) == calls["producer"][what] + calls["peer"][what]

NumSendFailures == Cardinality({i \in 1..Len(sends) : ~sends[i].ok})

----------------------------------------------------------------------------
\* The broker is running before the programs start.  It holds nothing, or the
\* stream, or the stream and the topic with the messages of earlier runs and
\* the position stored for the consumer: 0, or behind the last of them when an
\* earlier run of the consumer has read them.
Backlog(n) == [k \in 1..n |-> <<"backlog-", k>>]

Init ==
    /\ \/ /\ preexisting = "nothing"
          /\ streamExists = FALSE /\ topicExists = FALSE /\ log = <<>>
          /\ cursorAtStart = 0
       \/ /\ preexisting = "stream"
          /\ streamExists = TRUE /\ topicExists = FALSE /\ log = <<>>
          /\ cursorAtStart = 0
       \/ /\ preexisting = "topic"
          /\ streamExists = TRUE /\ topicExists = TRUE
          /\ \E n \in 0..MaxBacklog :
                /\ log = Backlog(n)
                /\ cursorAtStart \in {0, n}
    /\ cursor = cursorAtStart
    /\ overlap = FALSE
    /\ pc = [c \in Clients |->
                IF c = "peer" THEN "get_stream" ELSE "connect"]
    /\ streamStep = [c \in Callers |-> "none"]
    /\ topicStep = [c \in Callers |-> "none"]
    /\ calls = [c \in Callers |-> [what \in CallNames |-> 0]]
    /\ fault = FALSE
    /\ current_id = 0
    /\ n_sent_batches = 0
    /\ messages = <<>>
    /\ sends = <<>>
    /\ pSummary = -1
    /\ batch_ids = <<>>
    /\ offset = 0
    /\ n_consumed_batches = 0
    /\ polled_messages = <<>>
    /\ handled = <<>>
    /\ polls = <<>>
    /\ cError = "none"
    /\ cSummary = -1
    /\ session = [c \in Programs |-> "none"]
    /\ connFail = [c \in Programs |-> "none"]
    /\ pPauses = 0
    /\ cPauses = 0
    /\ lastPoll = "none"

----------------------------------------------------------------------------
\* producer.py main(): connect, login

ProducerConnect(ok) ==
    /\ pc["producer"] = "connect"
    /\ pc' = [pc EXCEPT !["producer"] = IF ok THEN "login" ELSE "crashed"]
    /\ UNCHANGED <<brokerVars, initVars, producerVars, consumerVars>>
    /\ session' = [session EXCEPT !["producer"] = IF ok THEN "open" ELSE @]
    /\ connFail' = [connFail EXCEPT !["producer"] = IF ok THEN @ ELSE "connect"]
    /\ UNCHANGED paceVars

\* (mutant) a failed login is logged and main goes on
ProducerLogin_Swallows(ok) ==
    /\ pc["producer"] = "login"
    /\ pc' = [pc EXCEPT !["producer"] = "get_stream"]
    /\ UNCHANGED <<brokerVars, initVars, producerVars, consumerVars>>
    /\ connFail' = [connFail EXCEPT !["producer"] = IF ok THEN @ ELSE "login"]
    /\ UNCHANGED <<session, paceVars>>

\* (mutant) init_system looks after the topic first and never after the stream
ProducerLogin_TopicFirst(ok) ==
    /\ pc["producer"] = "login"
    /\ pc' = [pc EXCEPT !["producer"] = IF ok THEN "get_topic" ELSE "crashed"]
    /\ UNCHANGED <<brokerVars, initVars, producerVars, consumerVars>>
    /\ connFail' = [connFail EXCEPT !["producer"] = IF ok THEN @ ELSE "login"]
    /\ UNCHANGED <<session, paceVars>>

ProducerLogin(ok) ==
    /\ pc["producer"] = "login"
    /\ pc' = [pc EXCEPT !["producer"] = IF ok THEN "get_stream" ELSE "crashed"]
    /\ UNCHANGED <<brokerVars, initVars, producerVars, consumerVars>>
    /\ connFail' = [connFail EXCEPT !["producer"] = IF ok THEN @ ELSE "login"]
    /\ UNCHANGED <<session, paceVars>>

----------------------------------------------------------------------------
\* init_system(client), run by the producer and by the peer

\* c is between its first and its last call of init_system
InsideInit(p, c) == p[c] \in {"create_stream", "get_topic", "create_topic"}

Overlaps(p) == overlap \/ (InsideInit(p, "producer") /\ InsideInit(p, "peer"))

\* (mutant) the result of the lookup is ignored: the stream is always created
GetStream_IgnoresLookup(c, raises) ==
    /\ pc[c] = "get_stream"
    /\ calls' = Called(c, "get_stream")
    /\ streamStep' = [streamStep EXCEPT ![c] = IF raises THEN "error" ELSE @]
    /\ fault' = (fault \/ raises)
    /\ pc' = [pc EXCEPT ![c] = IF raises THEN "get_topic" ELSE "create_stream"]
    /\ overlap' = Overlaps(pc')
    /\ UNCHANGED <<brokerVars, topicStep, preexisting, cursorAtStart, producerVars,
                   consumerVars>>
    /\ UNCHANGED <<connVars, paceVars>>

\* (mutant) one try statement around both steps: an exception in the stream
\* step leaves init_system
GetStream_OneTry(c, raises) ==
    /\ pc[c] = "get_stream"
    /\ calls' = Called(c, "get_stream")
    /\ IF raises
         THEN /\ streamStep' = [streamStep EXCEPT ![c] = "error"]
              /\ fault' = TRUE
              /\ pc' = [pc EXCEPT ![c] = IF c = "producer" THEN "loop" ELSE "done"]
         ELSE /\ fault' = fault
              /\ IF streamExists
                   THEN /\ streamStep' = [streamStep EXCEPT ![c] = "exists"]
                        /\ pc' = [pc EXCEPT ![c] = "get_topic"]
                   ELSE /\ streamStep' = streamStep
                        /\ pc' = [pc EXCEPT ![c] = "create_stream"]
    /\ overlap' = Overlaps(pc')
    /\ UNCHANGED <<brokerVars, topicStep, preexisting, cursorAtStart, producerVars,
                   consumerVars>>
    /\ UNCHANGED <<connVars, paceVars>>

\* stream = await client.get_stream(STREAM_NAME); the warning branch when found
GetStream(c, raises) ==
    /\ pc[c] = "get_stream"
    /\ calls' = Called(c, "get_stream")
    /\ IF raises
         THEN /\ streamStep' = [streamStep EXCEPT ![c] = "error"]
              /\ fault' = TRUE
              /\ pc' = [pc EXCEPT ![c] = "get_topic"]
         ELSE /\ fault' = fault
              /\ IF streamExists
                   THEN /\ streamStep' = [streamStep EXCEPT ![c] = "exists"]
                        /\ pc' = [pc EXCEPT ![c] = "get_topic"]
                   ELSE /\ streamStep' = streamStep
                        /\ pc' = [pc EXCEPT ![c] = "create_stream"]
    /\ overlap' = Overlaps(pc')
    /\ UNCHANGED <<brokerVars, topicStep, preexisting, cursorAtStart, producerVars,
                   consumerVars>>
    /\ UNCHANGED <<connVars, paceVars>>

\* await client.create_stream(name=STREAM_NAME, stream_id=STREAM_ID)
\* The broker rejects the creation of a stream that exists.
CreateStream(c, raises) ==
    /\ pc[c] = "create_stream"
    /\ UNCHANGED <<overlap, preexisting, cursorAtStart>>
    /\ calls' = Called(c, "create_stream")
    /\ pc' = [pc EXCEPT ![c] = "get_topic"]
    /\ IF raises \/ streamExists
         THEN /\ streamStep' = [streamStep EXCEPT ![c] = "error"]
              /\ fault' = (fault \/ raises)
              /\ UNCHANGED streamExists
         ELSE /\ streamStep' = [streamStep EXCEPT ![c] = "created"]
              /\ streamExists' = TRUE
              /\ fault' = fault
    /\ UNCHANGED <<topicExists, log, cursor, topicStep, producerVars, consumerVars>>
    /\ UNCHANGED <<connVars, paceVars>>

InitDone(c) == IF c = "producer" THEN "loop" ELSE "done"

\* topic = await client.get_topic(STREAM_NAME, TOPIC_NAME)
\* It finds the topic, finds nothing, or raises.
GetTopic(c, raises) ==
    /\ pc[c] = "get_topic"
    /\ UNCHANGED <<overlap, preexisting, cursorAtStart>>
    /\ calls' = Called(c, "get_topic")
    /\ IF raises
         THEN /\ topicStep' = [topicStep EXCEPT ![c] = "error"]
              /\ fault' = TRUE
              /\ pc' = [pc EXCEPT ![c] = InitDone(c)]
         ELSE /\ fault' = fault
              /\ IF topicExists
                   THEN /\ topicStep' = [topicStep EXCEPT ![c] = "exists"]
                        /\ pc' = [pc EXCEPT ![c] = InitDone(c)]
                   ELSE /\ topicStep' = topicStep
                        /\ pc' = [pc EXCEPT ![c] = "create_topic"]
    /\ UNCHANGED <<brokerVars, streamStep, producerVars, consumerVars>>
    /\ UNCHANGED <<connVars, paceVars>>

\* await client.create_topic(stream=STREAM_NAME, partitions_count=1, ...)
\* The broker rejects it when the stream is missing or the topic exists.
CreateTopic(c, raises) ==
    /\ pc[c] = "create_topic"
    /\ UNCHANGED <<overlap, preexisting, cursorAtStart>>
    /\ calls' = Called(c, "create_topic")
    /\ pc' = [pc EXCEPT ![c] = InitDone(c)]
    /\ IF raises \/ ~streamExists \/ topicExists
         THEN /\ topicStep' = [topicStep EXCEPT ![c] = "error"]
              /\ fault' = (fault \/ raises)
              /\ UNCHANGED topicExists
         ELSE /\ topicStep' = [topicStep EXCEPT ![c] = "created"]
              /\ topicExists' = TRUE
              /\ fault' = fault
    /\ UNCHANGED <<streamExists, log, cursor, streamStep, producerVars, consumerVars>>
    /\ UNCHANGED <<connVars, paceVars>>

----------------------------------------------------------------------------
\* produce_messages(client)

\* (mutant) while n_sent_batches <= BATCHES_LIMIT
ProducerBuild_OffByOne ==
    /\ pc["producer"] = "loop"
    /\ n_sent_batches <= BATCHES_LIMIT
    /\ messages' = BuildBatch(current_id)
    /\ current_id' = current_id + messages_per_batch
    /\ pc' = [pc EXCEPT !["producer"] = "send"]
    /\ UNCHANGED <<brokerVars, initVars, n_sent_batches, sends, pSummary,
                   consumerVars>>
    /\ UNCHANGED <<connVars, paceVars>>
    /\ batch_ids' = Append(batch_ids, current_id' \div messages_per_batch)

\* while n_sent_batches < BATCHES_LIMIT: build the batch of this iteration
ProducerBuild ==
    /\ pc["producer"] = "loop"
    /\ n_sent_batches < BATCHES_LIMIT
    /\ messages' = BuildBatch(current_id)
    /\ current_id' = current_id + messages_per_batch
    /\ pc' = [pc EXCEPT !["producer"] = "send"]
    /\ UNCHANGED <<brokerVars, initVars, n_sent_batches, sends, pSummary,
                   consumerVars>>
    /\ UNCHANGED <<connVars, paceVars>>
    /\ batch_ids' = Append(batch_ids, current_id' \div messages_per_batch)

\* (mutant) the batch is sent in two send_messages calls of half the size
ProducerSendOk_Split ==
    /\ pc["producer"] = "send"
    /\ topicExists
    /\ LET half == SubSeq(messages, 1, Min(Len(messages), messages_per_batch \div 2))
           rest == SubSeq(messages, Len(half) + 1, Len(messages))
       IN  /\ log' = log \o [k \in 1..Len(half) |-> half[k].payload]
           /\ sends' = Append(sends, [batch |-> half, ok |-> TRUE, to |-> Target])
           /\ messages' = rest
           /\ n_sent_batches' = n_sent_batches + (IF rest = <<>> THEN 1 ELSE 0)
           /\ pc' = [pc EXCEPT !["producer"] = IF rest = <<>> THEN "sleep" ELSE "send"]
    /\ UNCHANGED <<streamExists, topicExists, cursor, initVars, current_id,
                   pSummary, consumerVars>>
    /\ pPauses' = 0
    /\ UNCHANGED <<connVars, cPauses, lastPoll>>
    /\ UNCHANGED batch_ids

\* (mutant) the broker puts a batch at the head of the partition
ProducerSendOk_Prepends ==
    /\ pc["producer"] = "send"
    /\ topicExists
    /\ log' = [k \in 1..Len(messages) |-> messages[k].payload] \o log
    /\ sends' = Append(sends, [batch |-> messages, ok |-> TRUE, to |-> Target])
    /\ n_sent_batches' = n_sent_batches + 1
    /\ pc' = [pc EXCEPT !["producer"] = "sleep"]
    /\ UNCHANGED <<streamExists, topicExists, cursor, initVars, current_id,
                   messages, pSummary, consumerVars>>
    /\ pPauses' = 0
    /\ UNCHANGED <<connVars, cPauses, lastPoll>>
    /\ UNCHANGED batch_ids

\* await client.send_messages(...) returns; n_sent_batches += 1
ProducerSendOk ==
    /\ pc["producer"] = "send"
    /\ topicExists
    /\ log' = log \o [k \in 1..Len(messages) |-> messages[k].payload]
    /\ sends' = Append(sends, [batch |-> messages, ok |-> TRUE, to |-> Target])
    /\ n_sent_batches' = n_sent_batches + 1
    /\ pc' = [pc EXCEPT !["producer"] = "sleep"]
    /\ UNCHANGED <<streamExists, topicExists, cursor, initVars, current_id,
                   messages, pSummary, consumerVars>>
    /\ pPauses' = 0
    /\ UNCHANGED <<connVars, cPauses, lastPoll>>
    /\ UNCHANGED batch_ids

\* (mutant) the except clause rewinds current_id, so the batch is sent again
ProducerSendFail_Rewind ==
    /\ pc["producer"] = "send"
    /\ NumSendFailures < MaxSendFailures
    /\ sends' = Append(sends, [batch |-> messages, ok |-> FALSE, to |-> Target])
    /\ current_id' = current_id - messages_per_batch
    /\ pc' = [pc EXCEPT !["producer"] = "sleep"]
    /\ UNCHANGED <<brokerVars, initVars, n_sent_batches, messages, pSummary,
                   consumerVars>>
    /\ pPauses' = 0
    /\ UNCHANGED <<connVars, cPauses, lastPoll>>
    /\ UNCHANGED batch_ids

\* (mutant) the sleep is inside the try block, so a failed send skips it
ProducerSendFail_NoPause ==
    /\ pc["producer"] = "send"
    /\ NumSendFailures < MaxSendFailures
    /\ sends' = Append(sends, [batch |-> messages, ok |-> FALSE, to |-> Target])
    /\ pc' = [pc EXCEPT !["producer"] = "loop"]
    /\ UNCHANGED <<brokerVars, initVars, current_id, n_sent_batches, messages,
                   pSummary, consumerVars>>
    /\ pPauses' = 0
    /\ UNCHANGED <<connVars, cPauses, lastPoll>>
    /\ UNCHANGED batch_ids

\* (mutant) n_sent_batches += 1 stands after the try statement
ProducerSendFail_Counts ==
    /\ pc["producer"] = "send"
    /\ NumSendFailures < MaxSendFailures
    /\ sends' = Append(sends, [batch |-> messages, ok |-> FALSE, to |-> Target])
    /\ n_sent_batches' = n_sent_batches + 1
    /\ pc' = [pc EXCEPT !["producer"] = "sleep"]
    /\ UNCHANGED <<brokerVars, initVars, current_id, messages,
                   pSummary, consumerVars>>
    /\ pPauses' = 0
    /\ UNCHANGED <<connVars, cPauses, lastPoll>>
    /\ UNCHANGED batch_ids

\* await client.send_messages(...) raises; except Exception: log it
ProducerSendFail ==
    /\ pc["producer"] = "send"
    /\ NumSendFailures < MaxSendFailures
    /\ sends' = Append(sends, [batch |-> messages, ok |-> FALSE, to |-> Target])
    /\ pc' = [pc EXCEPT !["producer"] = "sleep"]
    /\ UNCHANGED <<brokerVars, initVars, current_id, n_sent_batches, messages,
                   pSummary, consumerVars>>
    /\ pPauses' = 0
    /\ UNCHANGED <<connVars, cPauses, lastPoll>>
    /\ UNCHANGED batch_ids

\* await asyncio.sleep(interval)
ProducerSleep ==
    /\ pc["producer"] = "sleep"
    /\ pc' = [pc EXCEPT !["producer"] = "loop"]
    /\ UNCHANGED <<brokerVars, initVars, producerVars, consumerVars>>
    /\ pPauses' = pPauses + 1
    /\ UNCHANGED <<connVars, cPauses, lastPoll>>

\* the while condition is false: log "Sent n batches of messages, exiting."
ProducerExit ==
    /\ pc["producer"] = "loop"
    /\ ~(n_sent_batches < BATCHES_LIMIT)
    /\ pSummary' = n_sent_batches
    /\ pc' = [pc EXCEPT !["producer"] = "done"]
    /\ UNCHANGED <<brokerVars, initVars, current_id, n_sent_batches, messages,
                   sends, consumerVars>>
    /\ UNCHANGED <<connVars, paceVars>>
    /\ UNCHANGED batch_ids

----------------------------------------------------------------------------
\* consumer.py main(): connect

ConsumerConnect(ok) ==
    /\ pc["consumer"] = "connect"
    /\ pc' = [pc EXCEPT !["consumer"] = IF ok THEN "loop" ELSE "crashed"]
    /\ UNCHANGED <<brokerVars, initVars, producerVars, consumerVars>>
    /\ session' = [session EXCEPT !["consumer"] = IF ok THEN "open" ELSE @]
    /\ connFail' = [connFail EXCEPT !["consumer"] = IF ok THEN @ ELSE "connect"]
    /\ UNCHANGED paceVars

----------------------------------------------------------------------------
\* consume_messages(client)

\* (mutant) auto_commit=False: the broker does not store the position
ConsumerPollSome_NoCommit ==
    /\ pc["consumer"] = "loop"
    /\ n_consumed_batches < BATCHES_LIMIT
    /\ topicExists
    /\ cursor < Len(log)
    /\ polled_messages' = PollResult(cursor, messages_per_batch)
    /\ cursor' = cursor
    /\ pc' = [pc EXCEPT !["consumer"] = "handle"]
    /\ UNCHANGED <<streamExists, topicExists, log, initVars, producerVars,
                   offset, n_consumed_batches, handled, polls, cError, cSummary>>
    /\ cPauses' = 0
    /\ lastPoll' = "some"
    /\ UNCHANGED <<connVars, pPauses>>

\* (mutant) the poll asks for the messages at the local offset
ConsumerPollSome_FromOffset ==
    /\ pc["consumer"] = "loop"
    /\ n_consumed_batches < BATCHES_LIMIT
    /\ topicExists
    /\ cursor < Len(log)
    /\ polled_messages' = PollResult(offset, messages_per_batch)
    /\ cursor' = cursor + Len(polled_messages')
    /\ pc' = [pc EXCEPT !["consumer"] = "handle"]
    /\ UNCHANGED <<streamExists, topicExists, log, initVars, producerVars,
                   offset, n_consumed_batches, handled, polls, cError, cSummary>>
    /\ cPauses' = 0
    /\ lastPoll' = "some"
    /\ UNCHANGED <<connVars, pPauses>>

\* poll_messages returns a non-empty result (auto_commit=True stores the position)
ConsumerPollSome ==
    /\ pc["consumer"] = "loop"
    /\ n_consumed_batches < BATCHES_LIMIT
    /\ topicExists
    /\ cursor < Len(log)
    /\ polled_messages' = PollResult(cursor, messages_per_batch)
    /\ cursor' = cursor + Len(polled_messages')
    /\ pc' = [pc EXCEPT !["consumer"] = "handle"]
    /\ UNCHANGED <<streamExists, topicExists, log, initVars, producerVars,
                   offset, n_consumed_batches, handled, polls, cError, cSummary>>
    /\ cPauses' = 0
    /\ lastPoll' = "some"
    /\ UNCHANGED <<connVars, pPauses>>

\* (mutant) an empty poll ends the loop
ConsumerPollEmpty_Breaks ==
    /\ pc["consumer"] = "loop"
    /\ n_consumed_batches < BATCHES_LIMIT
    /\ topicExists
    /\ cursor = Len(log)
    /\ polled_messages' = <<>>
    /\ pc' = [pc EXCEPT !["consumer"] = "done"]
    /\ UNCHANGED <<brokerVars, initVars, producerVars, offset,
                   n_consumed_batches, handled, polls, cError, cSummary>>
    /\ cPauses' = 0
    /\ lastPoll' = "empty"
    /\ UNCHANGED <<connVars, pPauses>>

\* (mutant) continue without the sleep before it
ConsumerPollEmpty_NoPause ==
    /\ pc["consumer"] = "loop"
    /\ n_consumed_batches < BATCHES_LIMIT
    /\ topicExists
    /\ cursor = Len(log)
    /\ polled_messages' = <<>>
    /\ pc' = pc
    /\ UNCHANGED <<brokerVars, initVars, producerVars, offset,
                   n_consumed_batches, handled, polls, cError, cSummary>>
    /\ cPauses' = 0
    /\ lastPoll' = "empty"
    /\ UNCHANGED <<connVars, pPauses>>

\* poll_messages returns nothing: log, sleep (the step after), continue
ConsumerPollEmpty ==
    /\ pc["consumer"] = "loop"
    /\ n_consumed_batches < BATCHES_LIMIT
    /\ topicExists
    /\ cursor = Len(log)
    /\ polled_messages' = <<>>
    /\ pc' = [pc EXCEPT !["consumer"] = "sleep"]
    /\ UNCHANGED <<brokerVars, initVars, producerVars, offset,
                   n_consumed_batches, handled, polls, cError, cSummary>>
    /\ cPauses' = 0
    /\ lastPoll' = "empty"
    /\ UNCHANGED <<connVars, pPauses>>

\* (mutant) the except clause logs and goes on with the loop instead of break
ConsumerPollFail_Continue ==
    /\ pc["consumer"] = "loop"
    /\ n_consumed_batches < BATCHES_LIMIT
    /\ cError' = "poll"
    /\ pc' = [pc EXCEPT !["consumer"] = "sleep"]
    /\ UNCHANGED <<brokerVars, initVars, producerVars, offset,
                   n_consumed_batches, polled_messages, handled, polls, cSummary>>
    /\ cPauses' = 0
    /\ lastPoll' = (IF topicExists THEN "raised" ELSE "missing")
    /\ UNCHANGED <<connVars, pPauses>>

\* poll_messages raises: except Exception: log, break; then the summary line
ConsumerPollFail ==
    /\ pc["consumer"] = "loop"
    /\ n_consumed_batches < BATCHES_LIMIT
    /\ cError' = "poll"
    /\ cSummary' = n_consumed_batches
    /\ pc' = [pc EXCEPT !["consumer"] = "done"]
    /\ UNCHANGED <<brokerVars, initVars, producerVars, offset,
                   n_consumed_batches, polled_messages, handled, polls>>
    /\ cPauses' = 0
    /\ lastPoll' = (IF topicExists THEN "raised" ELSE "missing")
    /\ UNCHANGED <<connVars, pPauses>>

\* (mutant) for message in reversed(polled_messages)
ConsumerHandle_Reversed ==
    /\ pc["consumer"] = "handle"
    /\ offset' = offset + Len(polled_messages)
    /\ polls' = Append(polls, Len(polled_messages))
    /\ handled' = handled \o [k \in 1..Len(polled_messages) |->
                                polled_messages[Len(polled_messages) + 1 - k]]
    /\ n_consumed_batches' = n_consumed_batches + 1
    /\ pc' = [pc EXCEPT !["consumer"] = "sleep"]
    /\ UNCHANGED <<brokerVars, initVars, producerVars, polled_messages, cError,
                   cSummary>>
    /\ UNCHANGED <<connVars, paceVars>>

\* (mutant) one batch counter for both loops: the consumer counts into
\* n_sent_batches as well
ConsumerHandle_SharedCounter ==
    /\ pc["consumer"] = "handle"
    /\ offset' = offset + Len(polled_messages)
    /\ polls' = Append(polls, Len(polled_messages))
    /\ handled' = handled \o polled_messages
    /\ n_consumed_batches' = n_consumed_batches + 1
    /\ n_sent_batches' = n_sent_batches + 1
    /\ pc' = [pc EXCEPT !["consumer"] = "sleep"]
    /\ UNCHANGED <<brokerVars, initVars, current_id, messages, sends, pSummary,
                   polled_messages, cError, cSummary>>
    /\ UNCHANGED <<connVars, paceVars>>
    /\ UNCHANGED batch_ids

\* (mutant) offset += messages_per_batch, the count asked for
ConsumerHandle_FixedStep ==
    /\ pc["consumer"] = "handle"
    /\ offset' = offset + messages_per_batch
    /\ polls' = Append(polls, Len(polled_messages))
    /\ handled' = handled \o polled_messages
    /\ n_consumed_batches' = n_consumed_batches + 1
    /\ pc' = [pc EXCEPT !["consumer"] = "sleep"]
    /\ UNCHANGED <<brokerVars, initVars, producerVars, polled_messages, cError,
                   cSummary>>
    /\ UNCHANGED <<connVars, paceVars>>

\* offset += len(polled_messages); handle every message; n_consumed_batches += 1
ConsumerHandle ==
    /\ pc["consumer"] = "handle"
    /\ offset' = offset + Len(polled_messages)
    /\ polls' = Append(polls, Len(polled_messages))
    /\ handled' = handled \o polled_messages
    /\ n_consumed_batches' = n_consumed_batches + 1
    /\ pc' = [pc EXCEPT !["consumer"] = "sleep"]
    /\ UNCHANGED <<brokerVars, initVars, producerVars, polled_messages, cError,
                   cSummary>>
    /\ UNCHANGED <<connVars, paceVars>>

\* (mutant) n_consumed_batches += 1 stands before the for loop
ConsumerHandleFail_CountsFirst(k) ==
    /\ pc["consumer"] = "handle"
    /\ k < Len(polled_messages)
    /\ offset' = offset + Len(polled_messages)
    /\ polls' = Append(polls, Len(polled_messages))
    /\ handled' = handled \o SubSeq(polled_messages, 1, k)
    /\ n_consumed_batches' = n_consumed_batches + 1
    /\ cError' = "handle"
    /\ cSummary' = n_consumed_batches'
    /\ pc' = [pc EXCEPT !["consumer"] = "done"]
    /\ UNCHANGED <<brokerVars, initVars, producerVars, polled_messages>>
    /\ UNCHANGED <<connVars, paceVars>>

\* (mutant) no except clause: the exception leaves consume_messages
ConsumerHandleFail_Propagates(k) ==
    /\ pc["consumer"] = "handle"
    /\ k < Len(polled_messages)
    /\ offset' = offset + Len(polled_messages)
    /\ polls' = Append(polls, Len(polled_messages))
    /\ handled' = handled \o SubSeq(polled_messages, 1, k)
    /\ cError' = "handle"
    /\ cSummary' = n_consumed_batches
    /\ pc' = [pc EXCEPT !["consumer"] = "crashed"]
    /\ UNCHANGED <<brokerVars, initVars, producerVars, n_consumed_batches,
                   polled_messages>>
    /\ UNCHANGED <<connVars, paceVars>>

\* handle_message raises on the (k+1)-th message of the poll: break, summary
ConsumerHandleFail(k) ==
    /\ pc["consumer"] = "handle"
    /\ k < Len(polled_messages)
    /\ offset' = offset + Len(polled_messages)
    /\ polls' = Append(polls, Len(polled_messages))
    /\ handled' = handled \o SubSeq(polled_messages, 1, k)
    /\ cError' = "handle"
    /\ cSummary' = n_consumed_batches
    /\ pc' = [pc EXCEPT !["consumer"] = "done"]
    /\ UNCHANGED <<brokerVars, initVars, producerVars, n_consumed_batches,
                   polled_messages>>
    /\ UNCHANGED <<connVars, paceVars>>

\* await asyncio.sleep(interval), after an empty and after a handled poll
ConsumerSleep ==
    /\ pc["consumer"] = "sleep"
    /\ pc' = [pc EXCEPT !["consumer"] = "loop"]
    /\ UNCHANGED <<brokerVars, initVars, producerVars, consumerVars>>
    /\ cPauses' = cPauses + 1
    /\ UNCHANGED <<connVars, pPauses, lastPoll>>

\* the while condition is false: log "Consumed n batches of messages, exiting."
ConsumerExit ==
    /\ pc["consumer"] = "loop"
    /\ ~(n_consumed_batches < BATCHES_LIMIT)
    /\ cSummary' = n_consumed_batches
    /\ pc' = [pc EXCEPT !["consumer"] = "done"]
    /\ UNCHANGED <<brokerVars, initVars, producerVars, offset,
                   n_consumed_batches, polled_messages, handled, polls, cError>>
    /\ UNCHANGED <<connVars, paceVars>>

----------------------------------------------------------------------------
ProducerStartup ==
    \/ \E ok \in BOOLEAN : ProducerConnect(ok)
    \/ \E ok \in BOOLEAN : ProducerLogin(ok)
    \/ \E raises \in BOOLEAN : GetStream("producer", raises)
    \/ \E raises \in BOOLEAN : CreateStream("producer", raises)
    \/ \E raises \in BOOLEAN : GetTopic("producer", raises)
    \/ \E raises \in BOOLEAN : CreateTopic("producer", raises)

ProducerLoop ==
    \/ ProducerBuild
    \/ ProducerSendOk
    \/ ProducerSendFail
    \/ ProducerSleep
    \/ ProducerExit

PeerStep ==
    \/ \E raises \in BOOLEAN : GetStream("peer", raises)
    \/ \E raises \in BOOLEAN : CreateStream("peer", raises)
    \/ \E raises \in BOOLEAN : GetTopic("peer", raises)
    \/ \E raises \in BOOLEAN : CreateTopic("peer", raises)

ConsumerStep ==
    \/ \E ok \in BOOLEAN : ConsumerConnect(ok)
    \/ ConsumerPollSome
    \/ ConsumerPollEmpty
    \/ ConsumerPollFail
    \/ ConsumerHandle
    \/ \E k \in 0..MaxHandled : ConsumerHandleFail(k)
    \/ ConsumerSleep
    \/ ConsumerExit

\* The producer program and the consumer program against one broker.
ProducerStep == ProducerStartup \/ ProducerLoop

Next == ProducerStep \/ ConsumerStep

Spec == Init /\ [][Next]_vars

\* Each client is a running program: a step it can take, it takes.
FairSpec == Spec /\ WF_vars(ProducerStep) /\ WF_vars(ConsumerStep)

\* Two callers of init_system against one broker: the producer program up to
\* the end of init_system, and the peer.
NextProvision == ProducerStartup \/ PeerStep

ProvisionSpec == Init /\ [][NextProvision]_vars

----------------------------------------------------------------------------
\* Vocabulary of the properties

NumSendOk == Cardinality({i \in 1..Len(sends) : sends[i].ok})

\* the identifiers of a batch, in order
IdsOf(batch) == [j \in 1..Len(batch) |-> IdOf(batch[j])]

\* the identifiers of a batch, as a set
IdSetOf(batch) == {IdOf(batch[j]) : j \in 1..Len(batch)}

\* the identifiers (k-1)*b+1 .. k*b
ExpectedIds(k) ==
    [j \in 1..messages_per_batch |-> (k - 1) * messages_per_batch + j]

ProducerEnded == pc["producer"] \in {"done", "crashed"}
ConsumerEnded == pc["consumer"] \in {"done", "crashed"}

TopologyFailed(c) == streamStep[c] = "error" \/ topicStep[c] = "error"

BothRanInit == pc["producer"] = "loop" /\ pc["peer"] = "done"

----------------------------------------------------------------------------
\* C1 (as stated): when the producer loop has ended, exactly BATCHES_LIMIT
\* send calls were issued, failed ones included.
C1_ExactlyLimitSendCalls ==
    pc["producer"] = "done" => Len(sends) = BATCHES_LIMIT

\* C1 (amended): when the producer loop has ended, exactly BATCHES_LIMIT send
\* calls have succeeded and every failed send has cost one more call; a send
\* call is issued only while fewer than BATCHES_LIMIT have succeeded.
C1_ExactlyLimitSuccessfulSends ==
    /\ NumSendOk <= BATCHES_LIMIT
    /\ pc["producer"] = "done" =>
          /\ NumSendOk = BATCHES_LIMIT
          /\ Len(sends) = BATCHES_LIMIT + NumSendFailures
    /\ pc["producer"] = "send" => NumSendOk < BATCHES_LIMIT

C1_Witness ==
    pc["producer"] = "done" /\ NumSendFailures = MaxSendFailures

\* C2: the k-th send call, failed ones counted, carries messages_per_batch
\* payloads message-((k-1)*b+1) .. message-(k*b), in that order.
C2_BatchIdentifiers ==
    \A k \in 1..Len(sends) :
        /\ Len(sends[k].batch) = messages_per_batch
        /\ IdsOf(sends[k].batch) = ExpectedIds(k)
        /\ \A j \in 1..Len(sends[k].batch) :
              sends[k].batch[j].payload[1] = "message-"

C2_Witness ==
    /\ Len(sends) = BATCHES_LIMIT + 1
    /\ ~sends[2].ok
    /\ sends[3].ok

\* C3: after a failed send of batch k the loop goes on, and the next batch is
\* built from the identifiers k*b+1 .. (k+1)*b.
C3_FailureIsolation ==
    \A k \in 1..Len(sends) :
        ~sends[k].ok =>
            /\ k < Len(sends) => IdsOf(sends[k + 1].batch) = ExpectedIds(k + 1)
            /\ k = Len(sends) =>
                  /\ n_sent_batches < BATCHES_LIMIT
                  /\ \/ /\ pc["producer"] \in {"sleep", "loop"}
                        /\ current_id = k * messages_per_batch
                     \/ /\ pc["producer"] = "send"
                        /\ IdsOf(messages) = ExpectedIds(k + 1)

C3_Witness ==
    \E k \in 1..Len(sends) :
        /\ k < Len(sends)
        /\ ~sends[k].ok
        /\ sends[k + 1].ok

\* C4: no identifier is passed to send_messages twice in a run.
C4_NoRetry ==
    /\ \A k \in 1..Len(sends) :
          Cardinality(IdSetOf(sends[k].batch)) = Len(sends[k].batch)
    /\ \A k1, k2 \in 1..Len(sends) :
          k1 < k2 => IdSetOf(sends[k1].batch) \cap IdSetOf(sends[k2].batch) = {}

C4_Witness ==
    /\ pc["producer"] = "done"
    /\ \E k \in 1..Len(sends) : ~sends[k].ok

\* C5 (as stated): the producer loop and the consumer loop end in every
\* execution.  (The producer is followed up to MaxSendFailures failed sends.)
C5_LoopsAlwaysTerminate ==
    /\ <>(ProducerEnded \/ NumSendFailures >= MaxSendFailures)
    /\ <>ConsumerEnded

\* C5 (amended): with finitely many failed sends, from some point on the
\* producer has ended unless the topic is missing (every send raises), and
\* the consumer has ended unless it has read all the partition holds (every
\* poll is empty).
C5_TerminationIfProgress ==
    <>[](/\ ProducerEnded \/ ~topicExists
         /\ ConsumerEnded \/ (topicExists /\ cursor = Len(log)))

C5_Witness ==
    /\ pc["producer"] = "done"
    /\ pc["consumer"] = "done"
    /\ NumSendFailures > 0
    /\ cError = "none"

\* C6: a failed stream or topic step of init_system keeps the producer from
\* sending.
C6_TopologyFailureIsFatal ==
    TopologyFailed("producer") => Len(sends) = 0

\* C7: two runs of init_system in sequence, no call failing: the entities are
\* created once (by the first run, when the broker did not hold them), the
\* second run finds both, issues no create call and logs no error.
C7_IdempotentProvisioning ==
    /\ Cardinality({c \in Callers : streamStep[c] = "created"}) <= 1
    /\ Cardinality({c \in Callers : topicStep[c] = "created"}) <= 1
    /\ (BothRanInit /\ ~overlap /\ ~fault) =>
          /\ streamExists /\ topicExists
          /\ NumCalls("create_stream") = (IF preexisting = "nothing" THEN 1 ELSE 0)
          /\ NumCalls("create_topic") = (IF preexisting = "topic" THEN 0 ELSE 1)
          /\ \A c \in Callers : ~TopologyFailed(c)
          /\ \E second \in Callers :
                /\ streamStep[second] = "exists"
                /\ topicStep[second] = "exists"
                /\ calls[second]["create_stream"] = 0
                /\ calls[second]["create_topic"] = 0

C7_Witness ==
    /\ BothRanInit /\ ~overlap /\ ~fault
    /\ preexisting = "nothing"
    /\ streamStep["producer"] = "created"
    /\ topicStep["peer"] = "exists"

\* C8: with no call failed by the transport, no caller of init_system ends a
\* step in its except clause: a create rejected because the other caller
\* created the entity first counts as "already exists".
C8_RaceIsNotAnError ==
    ~fault => \A c \in Callers : ~TopologyFailed(c)

\* C9: the consumer's offset grows by the size of each non-empty poll result
\* when the result is taken up, the position the broker stores grows by it
\* at the poll, neither changes on an empty or failed poll, neither ever
\* decreases, and outside a poll under way the stored position is the one the
\* consumer started from plus its offset.
C9_CursorAdvance ==
    /\ [](pc["consumer"] # "handle" => cursor = cursorAtStart + offset)
    /\ [][ /\ offset' >= offset
           /\ cursor' >= cursor
           /\ (pc["consumer"] = "loop" /\ pc'["consumer"] = "handle") =>
                 /\ Len(polled_messages') > 0
                 /\ cursor' = cursor + Len(polled_messages')
                 /\ offset' = offset
           /\ (pc["consumer"] = "handle" /\ pc'["consumer"] # "handle") =>
                 /\ offset' = offset + Len(polled_messages)
                 /\ cursor' = cursor
           /\ (pc["consumer"] = "loop" /\ pc'["consumer"] \in {"sleep", "done"}) =>
                 /\ offset' = offset
                 /\ cursor' = cursor
           /\ pc'["consumer"] = pc["consumer"] =>
                 /\ offset' = offset
                 /\ cursor' = cursor ]_vars

C9_Witness ==
    /\ pc["consumer"] = "sleep"
    /\ Len(polls) >= 2
    /\ polls[1] < messages_per_batch
    /\ offset = polls[1] + polls[2]

\* C10: once poll_messages has raised, the consumer is at its summary and
\* polls, handles and counts nothing more.
C10_PollFailureIsFatal ==
    /\ [](cError = "poll" =>
            /\ pc["consumer"] = "done"
            /\ cSummary = n_consumed_batches)
    /\ [][cError = "poll" =>
            /\ pc'["consumer"] = "done"
            /\ UNCHANGED <<cursor, consumerVars>>]_vars

C10_Witness ==
    /\ cError = "poll"
    /\ n_consumed_batches > 0
    /\ cursor < Len(log)

\* C11: an empty poll raises nothing, counts no batch, handles no message and
\* moves neither the offset nor the stored position; the consumer then
\* sleeps once, and the loop is still to poll again.
C11_EmptyPollIsNotAnError ==
    /\ [](lastPoll = "empty" =>
            /\ cError = "none"
            /\ n_consumed_batches < BATCHES_LIMIT
            /\ \/ pc["consumer"] = "sleep" /\ cPauses = 0
               \/ pc["consumer"] = "loop" /\ cPauses = 1)
    /\ [][(pc["consumer"] = "loop" /\ pc'["consumer"] # "loop"
              /\ lastPoll' = "empty") =>
            /\ pc'["consumer"] = "sleep"
            /\ UNCHANGED <<n_consumed_batches, handled, polls, offset, cursor,
                           cError, cSummary>>]_vars

C11_Witness ==
    /\ lastPoll = "empty"
    /\ pc["consumer"] = "loop"
    /\ cPauses = 1
    /\ n_consumed_batches > 0

\* C12: n_consumed_batches never exceeds BATCHES_LIMIT; the consumer loop has
\* ended either with BATCHES_LIMIT non-empty polls handled and no error, or
\* with fewer and an exception caught.
C12_ExitAtLimitOrOnError ==
    /\ n_consumed_batches <= BATCHES_LIMIT
    /\ pc["consumer"] = "done" =>
          \/ /\ n_consumed_batches = BATCHES_LIMIT
             /\ Len(polls) = BATCHES_LIMIT
             /\ \A i \in 1..Len(polls) : polls[i] > 0
             /\ cError = "none"
          \/ /\ n_consumed_batches < BATCHES_LIMIT
             /\ cError # "none"

C12_Witness ==
    /\ pc["consumer"] = "done"
    /\ cError = "handle"
    /\ n_consumed_batches = BATCHES_LIMIT - 1

\* the messages of earlier runs in the partition
BacklogLen == Cardinality({i \in 1..Len(log) : log[i][1] = "backlog-"})

\* C13 (as stated): a consumer that has counted BATCHES_LIMIT batches has
\* handled exactly message-1 .. message-50, in that order.
C13_EndToEndAlways ==
    n_consumed_batches = BATCHES_LIMIT =>
        /\ Len(handled) = BATCHES_LIMIT * messages_per_batch
        /\ \A i \in 1..Len(handled) : handled[i].payload = Payload(i)

\* C13 (amended): on a partition that was empty, with no send failed, a
\* consumer that has counted BATCHES_LIMIT batches has handled exactly
\* message-1 .. message-50, in that order, however its steps and the
\* producer's interleave.
C13_EndToEnd ==
    (n_consumed_batches = BATCHES_LIMIT /\ BacklogLen = 0 /\ NumSendFailures = 0) =>
        /\ Len(handled) = BATCHES_LIMIT * messages_per_batch
        /\ \A i \in 1..Len(handled) : handled[i].payload = Payload(i)

C13_Witness ==
    /\ n_consumed_batches = BATCHES_LIMIT
    /\ BacklogLen = 0
    /\ NumSendFailures = 0
    /\ pc["producer"] = "sleep"
    /\ pc["consumer"] = "sleep"

\* where the first message of the k-th send call lies in the partition
StartOf(k) ==
    BacklogLen + messages_per_batch * Cardinality({i \in 1..(k - 1) : sends[i].ok})

\* C14: the messages of a successful send lie in the partition in the order
\* of the call, polls return messages in partition order, and the consumer
\* handles them in that order.
C14_OrderWithinBatch ==
    /\ \A k \in 1..Len(sends) :
          sends[k].ok =>
              LET start == StartOf(k)
              IN  SubSeq(log, start + 1, start + Len(sends[k].batch))
                      = [j \in 1..Len(sends[k].batch) |-> sends[k].batch[j].payload]
    /\ \A i \in 1..Len(polled_messages) :
          /\ polled_messages[i].payload = log[polled_messages[i].offset + 1]
          /\ i > 1 => polled_messages[i].offset = polled_messages[i - 1].offset + 1
    /\ \A i \in 1..Len(handled) :
          /\ handled[i].payload = log[handled[i].offset + 1]
          /\ i > 1 => handled[i - 1].offset < handled[i].offset

C14_Witness ==
    /\ Len(handled) >= 2 * messages_per_batch
    /\ IdOf(handled[Len(handled)]) = IdOf(handled[Len(handled) - 1]) + 1
    /\ NumSendFailures > 0

\* C15: after a failed connect or login the producer issues no topology call
\* and no send; after a failed connect the consumer issues no poll.
C15_ConnectionErrorsAreFatal ==
    /\ connFail["producer"] # "none" =>
          /\ pc["producer"] = "crashed"
          /\ \A what \in CallNames : calls["producer"][what] = 0
          /\ sends = <<>>
    /\ connFail["consumer"] # "none" =>
          /\ pc["consumer"] = "crashed"
          /\ lastPoll = "none"
          /\ cursor = cursorAtStart
          /\ handled = <<>>

C15_Witness ==
    /\ connFail["producer"] = "login"
    /\ connFail["consumer"] = "connect"

\* C16: the producer sleeps exactly once after each send call, failed or
\* not, before the loop goes on.
C16_ProducerPausesOncePerSend ==
    /\ pc["producer"] = "sleep" => (pPauses = 0 /\ Len(sends) > 0)
    /\ (pc["producer"] \in {"loop", "send", "done"} /\ Len(sends) > 0) =>
          pPauses = 1

C16_Witness ==
    /\ pc["producer"] = "send"
    /\ Len(sends) > 1
    /\ ~sends[Len(sends)].ok
    /\ pPauses = 1

\* C17 (as stated): the consumer sleeps exactly once after every poll that
\* returned, empty or not.
C17_ConsumerPausesOncePerPoll ==
    /\ pc["consumer"] \in {"sleep", "handle"} => cPauses = 0
    /\ (pc["consumer"] \in {"loop", "done"} /\ lastPoll \in {"empty", "some"}) =>
          cPauses = 1

\* C17 (amended): the consumer sleeps exactly once after every poll that
\* returned, empty or not, unless handle_message raised on one of its
\* messages: then the loop ends with no sleep.
C17_ConsumerPausesUnlessHandlerRaises ==
    /\ pc["consumer"] \in {"sleep", "handle"} => cPauses = 0
    /\ (pc["consumer"] \in {"loop", "done"} /\ lastPoll \in {"empty", "some"}) =>
          cPauses = (IF cError = "handle" THEN 0 ELSE 1)

C17_Witness ==
    /\ pc["consumer"] = "loop"
    /\ lastPoll = "some"
    /\ cPauses = 1
    /\ Len(polls) >= 2

\* C18: a step of the producer leaves the consumer's counter, offset and
\* stored position alone; a step of the consumer leaves the producer's
\* counters, its batches and the partition alone.
C18_NoSharedState ==
    [][ /\ ProducerStep =>
              UNCHANGED <<offset, n_consumed_batches, cursor, polled_messages,
                          handled, polls, cError, cSummary>>
        /\ ConsumerStep =>
              UNCHANGED <<current_id, n_sent_batches, messages, sends,
                          pSummary, log, streamExists, topicExists>> ]_vars

C18_Witness ==
    /\ pc["producer"] = "send"
    /\ pc["consumer"] = "handle"
    /\ n_sent_batches > n_consumed_batches
    /\ n_consumed_batches > 0

\* C19: a program is aborted only by a failed connect or login (or a failed
\* topology step); a failed send leaves the producer in its loop, and an
\* exception in a poll or in handle_message takes the consumer to its summary.
C19_ErrorsContained ==
    /\ \A c \in Programs :
          pc[c] = "crashed" =>
              (connFail[c] # "none" \/ (c = "producer" /\ TopologyFailed(c)))
    /\ NumSendFailures > 0 => pc["producer"] \in {"sleep", "loop", "send", "done"}
    /\ cError # "none" =>
          /\ pc["consumer"] = "done"
          /\ cSummary = n_consumed_batches

C19_Witness ==
    /\ NumSendFailures > 0
    /\ pc["producer"] = "done"
    /\ cError = "handle"

\* C20: a program that has ended holds no open session.
C20_SessionReleased ==
    \A c \in Programs : pc[c] \in {"done", "crashed"} => session[c] # "open"

\* the offset at which the partition holds a payload
OffsetOf(payload) == (CHOOSE p \in 1..Len(log) : log[p] = payload) - 1

\* the send calls that returned, by their position in sends
OkSends == {k \in 1..Len(sends) : sends[k].ok}

\* C21: the partition only grows at its end and keeps what it holds at every
\* offset; every message of a later successful batch lies at a greater offset
\* than every message of an earlier one; the consumer handles the offsets
\* from its stored start position on, one after the other and each once, and
\* neither its offset nor its stored position goes back.
C21_OffsetsNeverRepeat ==
    /\ [](/\ \A k1, k2 \in OkSends :
                k1 < k2 =>
                    OffsetOf(sends[k1].batch[messages_per_batch].payload)
                        < OffsetOf(sends[k2].batch[1].payload)
          /\ \A i \in 1..Len(handled) : handled[i].offset = cursorAtStart + i - 1)
    /\ [][/\ Len(log') >= Len(log)
          /\ SubSeq(log', 1, Len(log)) = log
          /\ cursor' >= cursor
          /\ offset' >= offset]_vars

C21_Witness ==
    /\ Cardinality(OkSends) >= 2
    /\ NumSendFailures > 0
    /\ Len(handled) > messages_per_batch
    /\ BacklogLen > 0

\* how often the producer has issued the topology call `what`
ProducerCalls(what) == calls["producer"][what]

\* C22: the producer connects, then logs in, then runs init_system once (the
\* stream step, then the topic step), and only then sends: no later call is
\* issued before every earlier one has completed.
C22_StartupOrder ==
    /\ pc["producer"] = "connect" =>
          (session["producer"] = "none" /\ sends = <<>>
              /\ \A what \in CallNames : ProducerCalls(what) = 0)
    /\ pc["producer"] = "login" =>
          (session["producer"] = "open" /\ sends = <<>>
              /\ \A what \in CallNames : ProducerCalls(what) = 0)
    /\ (\E what \in CallNames : ProducerCalls(what) > 0) =>
          /\ session["producer"] = "open"
          /\ connFail["producer"] = "none"
          /\ pc["producer"] \notin {"connect", "login", "crashed"}
    /\ ProducerCalls("create_stream") > 0 => ProducerCalls("get_stream") = 1
    /\ (ProducerCalls("get_topic") > 0 \/ ProducerCalls("create_topic") > 0) =>
          /\ ProducerCalls("get_stream") = 1
          /\ streamStep["producer"] # "none"
          /\ pc["producer"] \notin {"get_stream", "create_stream"}
    /\ ProducerCalls("create_topic") > 0 => ProducerCalls("get_topic") = 1
    /\ (sends # <<>> \/ pc["producer"] \in {"loop", "send", "sleep", "done"}) =>
          /\ ProducerCalls("get_stream") = 1
          /\ ProducerCalls("get_topic") = 1
          /\ streamStep["producer"] # "none"
          /\ topicStep["producer"] # "none"
    /\ \A what \in CallNames : ProducerCalls(what) <= 1

C22_Witness ==
    /\ sends # <<>>
    /\ pc["producer"] = "send"
    /\ ProducerCalls("create_stream") = 1
    /\ ProducerCalls("create_topic") = 1

\* the non-empty polls whose messages were all handled
NumPollsHandled == Len(polls) - (IF cError = "handle" THEN 1 ELSE 0)

\* C23: n_sent_batches is the number of send calls that returned, between 0
\* and BATCHES_LIMIT, and BATCHES_LIMIT when the producer's summary is
\* logged; the consumer's summary reports the number of non-empty polls that
\* were handled to the end.
C23_CountersAreExact ==
    /\ n_sent_batches = NumSendOk
    /\ 0 <= n_sent_batches /\ n_sent_batches <= BATCHES_LIMIT
    /\ pSummary # -1 =>
          (pSummary = BATCHES_LIMIT /\ n_sent_batches = BATCHES_LIMIT)
    /\ pc["producer"] = "done" => pSummary # -1
    /\ n_consumed_batches = NumPollsHandled
    /\ cSummary # -1 => cSummary = NumPollsHandled
    /\ pc["consumer"] = "done" => cSummary # -1

C23_Witness ==
    /\ pSummary = BATCHES_LIMIT
    /\ NumSendFailures > 0
    /\ cSummary = 2
    /\ cError = "handle"

\* C24: every send_messages call carries a whole batch of messages_per_batch
\* messages, the batch built in its iteration and no other, one call per
\* batch built, and every call names the same stream, topic and partition.
C24_WholeBatchesOneTarget ==
    /\ \A i \in 1..Len(sends) :
          /\ sends[i].batch # <<>>
          /\ Len(sends[i].batch) = messages_per_batch
          /\ sends[i].batch = BuildBatch((i - 1) * messages_per_batch)
          /\ sends[i].to.stream = STREAM_NAME
          /\ sends[i].to.topic = TOPIC_NAME
          /\ sends[i].to.partition = PARTITION_ID
    /\ current_id = messages_per_batch *
                        (Len(sends) + (IF pc["producer"] = "send" THEN 1 ELSE 0))
    /\ pc["producer"] = "send" => Len(messages) = messages_per_batch

C24_Witness ==
    /\ Len(sends) = BATCHES_LIMIT + 1
    /\ NumSendFailures = 1
    /\ pc["producer"] = "done"

\* the number of messages in the first n non-empty polls
RECURSIVE PolledUpTo(_)
PolledUpTo(n) == IF n = 0 THEN 0 ELSE PolledUpTo(n - 1) + polls[n]

\* C25: the step that increments n_consumed_batches is the step that has
\* handled every message of the poll, in the order returned; a poll whose
\* handling broke off is not counted; the messages handled are those of the
\* counted polls, poll after poll, then the handled part of the uncounted one.
C25_CountAfterHandling ==
    /\ [][/\ n_consumed_batches' # n_consumed_batches =>
                /\ n_consumed_batches' = n_consumed_batches + 1
                /\ polled_messages # <<>>
                /\ handled' = handled \o polled_messages
          /\ handled' # handled =>
                /\ pc["consumer"] = "handle"
                /\ \E k \in 1..Len(polled_messages) :
                      handled' = handled \o SubSeq(polled_messages, 1, k)
                /\ (n_consumed_batches' = n_consumed_batches) =
                      (Len(handled') - Len(handled) < Len(polled_messages))]_vars
    /\ [](/\ n_consumed_batches <= Len(polls)
          /\ Len(handled) >= PolledUpTo(n_consumed_batches)
          /\ Len(handled) = PolledUpTo(n_consumed_batches) <=>
                (cError # "handle" \/ Len(handled) = PolledUpTo(Len(polls) - 1))
          /\ Len(handled) <= PolledUpTo(Len(polls)))

C25_Witness ==
    /\ n_consumed_batches = 2
    /\ cError = "handle"
    /\ Len(handled) = PolledUpTo(2) + MaxHandled
    /\ polls[1] < messages_per_batch

\* C26: once init_system of the producer has created the topic with
\* partitions_count partitions, the partition id the send calls and the polls
\* name is the id of one of its partitions.
C26_PartitionAddressedExists ==
    topicStep["producer"] = "created" =>
        /\ PARTITION_ID \in PartitionIds(partitions_count)
        /\ \A i \in 1..Len(sends) :
              sends[i].to.partition \in PartitionIds(partitions_count)

\* the payloads of the first n send calls that returned, in send order
RECURSIVE SentUpTo(_)
SentUpTo(n) ==
    IF n = 0 THEN <<>>
    ELSE SentUpTo(n - 1) \o
            (IF sends[n].ok
                THEN [j \in 1..Len(sends[n].batch) |-> sends[n].batch[j].payload]
                ELSE <<>>)

\* the payloads handle_message has decoded, in order
HandledPayloads == [i \in 1..Len(handled) |-> handled[i].payload]

\* the identifiers of this run's messages among them
HandledIds ==
    {handled[i].payload[2] :
        i \in {h \in 1..Len(handled) : handled[h].payload[1] = "message-"}}

\* C27: after a failed send the partition holds, behind the messages of
\* earlier runs, exactly the batches whose send returned, in send order; the
\* consumer handles the partition from its stored position, no payload twice and none
\* of a failed batch; a consumer that has counted BATCHES_LIMIT batches of a
\* partition that was empty has handled exactly those batches, which are not
\* message-1 .. message-50.
C27_OnlySuccessfulBatchesObserved ==
    NumSendFailures > 0 =>
        /\ SubSeq(log, BacklogLen + 1, Len(log)) = SentUpTo(Len(sends))
        /\ \A i \in 1..Len(handled) : handled[i].payload = log[cursorAtStart + i]
        /\ \A k \in 1..Len(sends) :
              ~sends[k].ok => IdSetOf(sends[k].batch) \cap HandledIds = {}
        /\ Cardinality({handled[i].payload : i \in 1..Len(handled)}) = Len(handled)
        /\ (n_consumed_batches = BATCHES_LIMIT /\ BacklogLen = 0) =>
              /\ HandledPayloads = SentUpTo(Len(sends))
              /\ \E id \in 1..(BATCHES_LIMIT * messages_per_batch) : id \notin HandledIds
              /\ \E id \in HandledIds : id > BATCHES_LIMIT * messages_per_batch

C27_Witness ==
    /\ Len(sends) = BATCHES_LIMIT + 1
    /\ ~sends[2].ok
    /\ n_consumed_batches = BATCHES_LIMIT
    /\ BacklogLen = 0
    /\ pc["consumer"] = "done"

\* the partition holds at least BATCHES_LIMIT non-empty poll results for a
\* consumer that reads it from its stored position
EnoughToConsume == Len(log) - cursorAtStart >= BATCHES_LIMIT * messages_per_batch

\* C28 (as stated): a connected consumer whose polls never fail ends with
\* n_consumed_batches = BATCHES_LIMIT once the partition holds enough; while
\* the partition is empty it polls again and again and logs no summary.
C28_ConsumerEndsIfPollsSucceed ==
    /\ <>[](\/ ~EnoughToConsume
            \/ connFail["consumer"] # "none"
            \/ cError = "poll"
            \/ (pc["consumer"] = "done" /\ n_consumed_batches = BATCHES_LIMIT))
    /\ []<>(\/ Len(log) > 0
            \/ connFail["consumer"] # "none"
            \/ cError = "poll"
            \/ (pc["consumer"] = "sleep" /\ lastPoll = "empty"))
    /\ []((Len(log) = 0 /\ cError # "poll") => pc["consumer"] # "done")

\* C28 (amended): a connected consumer whose polls never fail and whose
\* handle_message never raises ends with n_consumed_batches = BATCHES_LIMIT
\* once the partition holds enough; while the partition is empty it polls
\* again and again and logs no summary.
C28_ConsumerEndsIfNothingRaises ==
    /\ <>[](\/ ~EnoughToConsume
            \/ connFail["consumer"] # "none"
            \/ cError # "none"
            \/ (pc["consumer"] = "done" /\ n_consumed_batches = BATCHES_LIMIT
                   /\ cSummary = BATCHES_LIMIT))
    /\ []<>(\/ Len(log) > 0
            \/ connFail["consumer"] # "none"
            \/ cError # "none"
            \/ (pc["consumer"] = "sleep" /\ lastPoll = "empty"))
    /\ []((Len(log) = 0 /\ cError = "none") => pc["consumer"] # "done")

C28_Witness ==
    /\ EnoughToConsume
    /\ pc["consumer"] = "done"
    /\ cError = "none"
    /\ n_consumed_batches = BATCHES_LIMIT
    /\ polls[1] < messages_per_batch

\* C29: whatever happened in the stream step of init_system, its caller goes
\* on to the topic step: get_topic is called, and create_topic when get_topic
\* found nothing; init_system returns and no caller is aborted by it.
C29_StepsFailIndependently ==
    \A c \in Callers :
        /\ streamStep[c] = "error" =>
              pc[c] \in {"get_topic", "create_topic", InitDone(c)}
        /\ (streamStep[c] # "none" /\ pc[c] # "get_topic") =>
              calls[c]["get_topic"] = 1
        /\ pc[c] = "create_topic" => topicStep[c] = "none"
        /\ pc[c] = InitDone(c) =>
              /\ calls[c]["get_stream"] = 1
              /\ calls[c]["get_topic"] = 1
              /\ streamStep[c] # "none"
              /\ topicStep[c] # "none"
              /\ topicStep[c] = "created" => calls[c]["create_topic"] = 1
              /\ topicStep[c] = "exists" => calls[c]["create_topic"] = 0
        /\ pc[c] = "crashed" =>
              (streamStep[c] = "none" /\ topicStep[c] = "none"
                  /\ calls[c]["get_stream"] = 0)

C29_Witness ==
    /\ pc["producer"] = InitDone("producer")
    /\ streamStep["producer"] = "error"
    /\ topicStep["producer"] = "created"
    /\ pc["peer"] = InitDone("peer")
    /\ streamStep["peer"] = "error"
    /\ topicStep["peer"] = "error"

\* C30: after handle_message raised in the middle of a poll the loop has
\* ended, the poll is not counted, and both the local offset and the position
\* the broker stores lie behind the last message of that poll; the part of the
\* poll not handled stays unhandled, and a poll from the stored position
\* returns none of it.
C30_FailedPollIsSkipped ==
    /\ [](cError = "handle" =>
            /\ pc["consumer"] = "done"
            /\ n_consumed_batches = Len(polls) - 1
            /\ cSummary = n_consumed_batches
            /\ offset = PolledUpTo(Len(polls))
            /\ cursor = cursorAtStart + offset
            /\ Len(handled) < offset
            /\ Len(handled) >= PolledUpTo(n_consumed_batches)
            /\ \A i \in 1..Len(handled) :
                  handled[i].offset < cursorAtStart + Len(handled)
            /\ \A k \in 1..Len(PollResult(cursor, messages_per_batch)) :
                  PollResult(cursor, messages_per_batch)[k].offset >= cursor)
    /\ [][/\ cursor' >= cursor
          /\ cError = "handle" =>
                UNCHANGED <<handled, cursor, offset, n_consumed_batches,
                            cError, cSummary>>]_vars

C30_Witness ==
    /\ cError = "handle"
    /\ n_consumed_batches = 1
    /\ Len(handled) = PolledUpTo(1) + MaxHandled
    /\ cursor = cursorAtStart + PolledUpTo(2)
    /\ Len(log) > cursor

C32_OffsetIsBookkeeping ==
    /\ [](/\ offset = PolledUpTo(Len(polls))
          /\ \A k \in 1..Len(polls) : polls[k] \in 1..messages_per_batch
          /\ n_consumed_batches <= offset
          /\ offset <= messages_per_batch * Len(polls)
          /\ n_consumed_batches <= Len(polls)
          /\ pc["consumer"] = "handle" =>
                cursor = cursorAtStart + offset + Len(polled_messages)
          /\ pc["consumer"] # "handle" => cursor = cursorAtStart + offset)
    /\ [][/\ (pc["consumer"] = "loop" /\ pc'["consumer"] = "handle") =>
                polled_messages' = PollResult(cursor, messages_per_batch)
          /\ (pc["consumer"] = "loop" /\ lastPoll' = "empty"
                /\ pc'["consumer"] = "sleep") =>
                PollResult(cursor, messages_per_batch) = <<>>
          /\ offset' # offset =>
                /\ pc["consumer"] = "handle"
                /\ offset' = offset + Len(polled_messages)
                /\ cursor' = cursor]_vars

C32_Witness ==
    /\ cursorAtStart > 0
    /\ Len(polls) = 2
    /\ offset = 2 * messages_per_batch
    /\ offset # cursor - Len(polled_messages)
    /\ pc["consumer"] = "handle"
    /\ polled_messages = PollResult(cursorAtStart + offset, messages_per_batch)
    /\ polled_messages # PollResult(offset, messages_per_batch)

\* C33: the batch identifier logged for the k-th send attempt of a run, failed
\* attempts counted, is k; current_id is messages_per_batch times the number
\* of attempts begun, and the send, its outcome and the sleep leave it as it
\* is, so the line logged after a successful send names the same identifier.
C33_BatchIdIsAttemptIndex ==
    /\ [](/\ Len(batch_ids) =
                Len(sends) + (IF pc["producer"] = "send" THEN 1 ELSE 0)
          /\ \A k \in 1..Len(batch_ids) : batch_ids[k] = k
          /\ current_id = messages_per_batch * Len(batch_ids)
          /\ current_id \div messages_per_batch = Len(batch_ids)
          /\ current_id % messages_per_batch = 0)
    /\ [][/\ Len(sends') > Len(sends) =>
                /\ current_id' = current_id
                /\ current_id \div messages_per_batch = Len(sends')
          /\ current_id' # current_id =>
                /\ pc["producer"] = "loop"
                /\ Len(batch_ids') = Len(batch_ids) + 1]_vars

C33_Witness ==
    /\ Len(sends) = BATCHES_LIMIT
    /\ ~sends[2].ok
    /\ pc["producer"] = "send"
    /\ n_sent_batches = BATCHES_LIMIT - 1
    /\ batch_ids[Len(batch_ids)] = BATCHES_LIMIT + 1
    /\ current_id = messages_per_batch * (BATCHES_LIMIT + 1)

====
